---- MODULE Spec2Model ----
(***************************************************************************)
(* A model of the AWESim_SOSS time-series simulator.                       *)
(*                                                                         *)
(* Two generations of the TSO class live in the repository and both are    *)
(* modelled here:                                                          *)
(*   - awesimsoss/awesim.py       (class TSO, PSF-cube based design)       *)
(*   - AWESim_SOSS/sim2D/awesim.py (class TSO, per-pixel design)           *)
(*                                                                         *)
(* The detector is scaled down: NCols columns instead of 2048, Rows96 /     *)
(* Rows256 / RowsFull rows instead of 96 / 256 / 2048, and a reference-    *)
(* pixel border of RefWidth pixels instead of 4.  An array is a numpy-like *)
(* record [shape, v]: a shape tuple and the row-major flat list of values. *)
(***************************************************************************)
EXTENDS Integers, Sequences, FiniteSets, TLC

(***************************************************************************)
(* Bounds of the model                                                     *)
(***************************************************************************)
MaxGrps == 2
MaxInts == 2
NCols == 4
Rows96 == 2
Rows256 == 4
RowsFull == 5
RefWidth == 1
MaxRuns == 2
MaxCores == 2
Processes == 2      \* worker processes of the sim2D pool (8 in the code)
ChunkSize == 2      \* tasks a pool hands to a worker at a time
Oversample == 2     \* samples of the trace polynomial per pixel (10 in the code)
MapRadius == 1      \* trace radius in pixels on the scaled detector (25 in the code)
MaxCalls == 3       \* method calls made on one object
MaxWaves == 3       \* binned wavelengths of a spectral order in ldc_lookup

(***************************************************************************)
(* Program constants                                                       *)
(***************************************************************************)
NResets == 1
LdOrders == 3

VARIABLES
    self,       \* the awesimsoss TSO object: a record of its attributes
    heap,       \* the caller's batman TransitModel objects, by identity
    err,        \* the exception the last call raised, or "none"
    calls,      \* number of run_simulation calls made so far
    pc,         \* position inside TSO.__init__ / TSO.run_simulation
    args,       \* arguments of the call in flight (or of the constructor)
    loc,        \* locals of the run_simulation call in flight
    stages,     \* stages the run in flight has completed, in order
    old,        \* the sim2D TSO object
    hist        \* the run_simulation calls made so far, in order

vars == <<self, heap, err, calls, pc, args, loc, stages, old, hist>>

(***************************************************************************)
(* numpy-like arrays                                                       *)
(***************************************************************************)
RECURSIVE Prod(_)
Prod(s) == IF s = <<>> THEN 1 ELSE Head(s) * Prod(Tail(s))

Min(a, b) == IF a < b THEN a ELSE b

\* np.zeros(shape)
Zeros(shape) == [shape |-> shape, v |-> [i \in 1..Prod(shape) |-> 0]]

\* a 0-d value, e.g. what np.sum([], axis=0) returns
Scalar(x) == [shape |-> <<>>, v |-> <<x>>]

Ndim(T) == Len(T.shape)

\* stride of axis k (1-based) in a row-major layout
Stride(shape, k) == Prod(SubSeq(shape, k + 1, Len(shape)))

\* 0-based coordinate of the element at flat position i (1-based) along an axis
\* of length n and stride st
CoordS(st, n, i) == ((i - 1) \div st) % n



\* arr.reshape(dims): the same values under a new shape, or an error
CanReshape(T, dims) == Prod(T.shape) = Prod(dims)
Reshape(T, dims) == [shape |-> dims, v |-> T.v]

\* arr[:, :n, :] (needs at least three axes)
TrimAxis1(T, n) ==
    LET m == Min(n, T.shape[2])
        ns == [T.shape EXCEPT ![2] = m]
        inner == Stride(T.shape, 2)
        keep(j) == LET a == (j - 1) \div (m * inner)
                       b == (j - 1) % (m * inner)
                   IN  a * (T.shape[2] * inner) + b + 1
    IN  [shape |-> ns, v |-> [j \in 1..Prod(ns) |-> T.v[keep(j)]]]

\* elementwise a + b of equally shaped arrays
AddArr(A, B) == [shape |-> A.shape, v |-> [i \in DOMAIN A.v |-> A.v[i] + B.v[i]]]

IsZero(T) == \A i \in DOMAIN T.v : T.v[i] = 0


(***************************************************************************)
(* Module-level tables and helpers                                         *)
(***************************************************************************)
Subarrays == {"SUBSTRIP256", "SUBSTRIP96", "FULL"}

\* SUBARRAY_Y: rows of each subarray (scaled)
SUBARRAY_Y(subarray) ==
    CASE subarray = "SUBSTRIP96" -> Rows96
      [] subarray = "SUBSTRIP256" -> Rows256
      [] subarray = "FULL" -> RowsFull

\* FRAME_TIMES: frame time of each subarray (2.213, 5.491, 10.737 s, in whole units)
FRAME_TIMES(subarray) ==
    CASE subarray = "SUBSTRIP96" -> 2
      [] subarray = "SUBSTRIP256" -> 5
      [] subarray = "FULL" -> 10

\* the time axis: the loop of get_frame_times, integration by integration
RECURSIVE FrameTimesLoop(_, _, _, _, _, _)
FrameTimesLoop(i, t, ft, ngrps, nresets, time_axis) ==
    IF i = 0 THEN time_axis
    ELSE LET times == [k \in 1..(nresets + ngrps) |-> t + (k - 1) * ft]
         IN  FrameTimesLoop(i - 1, times[Len(times)] + ft, ft, ngrps, nresets,
                            time_axis \o SubSeq(times, nresets + 1, Len(times)))

\* a time axis with no reset frames between the integrations
frame_times_no_resets(subarray, ngrps, nints, t0, nresets) ==
    LET sub == IF subarray \in Subarrays THEN subarray ELSE "SUBSTRIP256"
    IN  FrameTimesLoop(nints, t0, FRAME_TIMES(sub), ngrps, 0, <<>>)

\* lines 215-255
get_frame_times(subarray, ngrps, nints, t0, nresets) ==
    LET sub == IF subarray \in Subarrays THEN subarray ELSE "SUBSTRIP256"
    IN  FrameTimesLoop(nints, t0, FRAME_TIMES(sub), ngrps, nresets, <<>>)

\* list(set(orders)): the distinct values, in ascending order
RECURSIVE SortedSeq(_)
SortedSeq(S) ==
    IF S = {} THEN <<>>
    ELSE LET m == CHOOSE x \in S : \A y \in S : x <= y
         IN  <<m>> \o SortedSeq(S \ {m})

Range(q) == {q[i] : i \in DOMAIN q}

(***************************************************************************)
(* TSO.__init__ (awesimsoss)                                               *)
(***************************************************************************)
\* A star argument: whether it is a list/tuple, and the kind of each element:
\* "plain" (no unit), "um" (a length), "flam" (a flux density), "s" (another unit)
UnitKinds == {"plain", "um", "flam", "s"}

IsQuantity(k) == k # "plain"
IsLength(k) == k = "um"
IsFlam(k) == k = "flam"

\* the error _check_star raises for a star, or "none"
\* (line 181 joins type objects as if they were strings)
check_star_error(star) ==
    IF ~star.seq \/ Len(star.el) \notin {2, 3} THEN "ValueError"
    ELSE IF ~(\A i \in DOMAIN star.el : IsQuantity(star.el[i])) THEN "TypeError"
    ELSE IF ~IsLength(star.el[1]) THEN "ValueError"
    ELSE IF ~(\A i \in 2..Len(star.el) : IsFlam(star.el[i])) THEN "ValueError"
    ELSE "none"

NoStar == [seq |-> FALSE, el |-> <<>>]
NoLd == [src |-> "unset", n |-> 0, sp |-> 0, law |-> "none"]

\* the object before __init__ has set anything
Blank ==
    [has |-> {}, star |-> NoStar, subarray |-> "", nrows |-> 0, ncols |-> 0,
     ngrps |-> 0, nints |-> 0, nresets |-> 0, frame_time |-> 0, time |-> <<>>,
     nframes |-> 0, filter |-> "", model_grid |-> "None", wave |-> FALSE,
     ld_coeffs |-> NoLd, planet |-> "None", tmodel |-> "None", orders |-> <<>>,
     psfs |-> {}, photom |-> FALSE, dims |-> <<>>, dims3 |-> <<>>,
     tso |-> Scalar(0), tso_ideal |-> Scalar(0),
     tso_order1_ideal |-> Scalar(0), tso_order2_ideal |-> Scalar(0)]

\* lines 96-97
InitCheckStar(s, a) == [s EXCEPT !.star = a.star, !.has = @ \cup {"star"}]

\* lines 99-117: the exposure attributes, with the time axis
InitAttrs(s, a) ==
    [s EXCEPT !.subarray = a.subarray,
              !.nrows = SUBARRAY_Y(a.subarray),
              !.ncols = NCols,
              !.ngrps = a.ngrps,
              !.nints = a.nints,
              !.nresets = NResets,
              !.frame_time = FRAME_TIMES(a.subarray),
              !.time = get_frame_times(a.subarray, a.ngrps, a.nints, a.t0, NResets),
              !.nframes = a.ngrps * a.nints,
              !.filter = a.filt,
              !.model_grid = "None",
              !.has = @ \cup {"subarray", "time", "filter", "model_grid"}]

\* lines 119-124: the wavelength maps and the default coefficients
InitTarget(s) ==
    [s EXCEPT !.wave = TRUE,
              !.ld_coeffs = [src |-> "zeros", n |-> LdOrders, sp |-> 0, law |-> "none"],
              !.planet = "None",
              !.tmodel = "None",
              !.has = @ \cup {"wave", "ld_coeffs", "planet", "tmodel"}]

\* lines 126-130: an int becomes a one-element list; every order must be 1 or 2
OrdersList(orders) == orders.l
OrdersValid(orders) == \A i \in DOMAIN OrdersList(orders) : OrdersList(orders)[i] \in {1, 2}

\* line 131
InitOrders(s, a) ==
    [s EXCEPT !.orders = SortedSeq(Range(OrdersList(a.orders))), !.has = @ \cup {"orders"}]

\* lines 133-135: F277W simulates order 1
FilterOrders(filt, orders) == IF filt = "F277W" THEN <<1>> ELSE orders

InitFilter(s) == [s EXCEPT !.orders = FilterOrders(s.filter, s.orders)]

\* lines 137-143: one PSF cube per order
InitPsfs(s) == [s EXCEPT !.psfs = Range(s.orders), !.has = @ \cup {"psfs"}]

\* lines 145-152: the photometric calibration and the trace polynomials
InitCalib(s) == [s EXCEPT !.photom = TRUE, !.has = @ \cup {"photom", "coeffs"}]

\* lines 154-160: the empty exposure
InitAlloc(s) ==
    LET dims == <<s.nints, s.ngrps, s.nrows, s.ncols>>
    IN  [s EXCEPT !.dims = dims,
                  !.dims3 = <<s.nints * s.ngrps, s.nrows, s.ncols>>,
                  !.tso = Zeros(dims),
                  !.tso_ideal = Zeros(dims),
                  !.tso_order1_ideal = Zeros(dims),
                  !.tso_order2_ideal = Zeros(dims),
                  !.has = @ \cup {"dims", "tso", "tso_ideal",
                                  "tso_order1_ideal", "tso_order2_ideal"}]

\* the object a successful __init__ leaves
Construct(a) ==
    InitAlloc(InitCalib(InitPsfs(InitFilter(InitOrders(InitTarget(InitAttrs(
        InitCheckStar(Blank, a), a)), a)))))



(***************************************************************************)
(* TSO.run_simulation (awesimsoss): the part before the loop over orders   *)
(***************************************************************************)
TModelIds == {"tmA", "tmB"}
TimeUnits == {"seconds", "minutes", "hours", "days"}

\* lines 250-252
EffectiveJobs(n_jobs) == IF n_jobs = -1 \/ n_jobs > MaxCores THEN MaxCores ELSE n_jobs

\* lines 254-258
ClearResults(s) ==
    [s EXCEPT !.tso = Zeros(s.dims),
              !.tso_ideal = Zeros(s.dims),
              !.tso_order1_ideal = Zeros(s.dims),
              !.tso_order2_ideal = Zeros(s.dims)]

\* [getattr(obj, p, None) for p in plist]: (teff, logg, feh) as one value, and limb_dark
StellarParams(h, id) == IF id = "None" THEN <<0, "None">> ELSE <<h[id].sp, h[id].limb_dark>>

\* lines 275-290: the call's writes to the caller's transit model
UpdateTModel(tm, s, a) ==
    LET m1 == IF tm.limb_dark = "None" THEN [tm EXCEPT !.limb_dark = a.ld_profile] ELSE tm
        m2 == IF ~m1.t0set \/ (s.time[1] > m1.t0 /\ m1.t0 > s.time[Len(s.time)])
              THEN [m1 EXCEPT !.t0set = TRUE, !.t0 = s.time[(s.nframes \div 2) + 1]]
              ELSE m1
    IN  IF a.time_unit \in {"seconds", "minutes", "hours"}
        THEN [m2 EXCEPT !.tconv = Append(@, a.time_unit)]
        ELSE m2

IsNdarray3(coeffs) == coeffs \in {"arr3", "arr1"}
LdFirstDim(coeffs) == IF coeffs = "arr3" THEN LdOrders ELSE 1

\* lines 413-437: the ld_coeffs setter.  Its second branch reads the name
\* tmodel, which is bound neither in the setter nor in the module.
ld_coeffs_setter(s, coeffs) ==
    IF IsNdarray3(coeffs)
    THEN [err |-> "none",
          self |-> [s EXCEPT !.ld_coeffs = [src |-> "explicit", n |-> LdFirstDim(coeffs),
                                             sp |-> 0, law |-> "none"]]]
    ELSE [err |-> "NameError", self |-> s]

\* lines 292-307
SetLimbDarkening(s, h, a, changed) ==
    IF a.ld_coeffs # "None" THEN ld_coeffs_setter(s, a.ld_coeffs)
    ELSE IF a.model_grid = "grid" /\ changed
         THEN ld_coeffs_setter([s EXCEPT !.model_grid = a.model_grid], a.tmodel)
         ELSE [err |-> "none", self |-> s]

\* lines 247-307
RunPrologue(s, h, a) ==
    LET n_jobs == EffectiveJobs(a.n_jobs)
        s1 == ClearResults(s)
        is_tmodel == a.tmodel \in TModelIds
    IN  IF ~(a.planet # "None" /\ is_tmodel)
        THEN [self |-> s1, heap |-> h, err |-> "none", n_jobs |-> n_jobs]
        ELSE IF a.time_unit \notin TimeUnits
        THEN [self |-> s1, heap |-> h, err |-> "ValueError", n_jobs |-> n_jobs]
        ELSE LET old_params == StellarParams(h, s1.tmodel)
                 s2 == [s1 EXCEPT !.planet = a.planet, !.tmodel = a.tmodel]
                 h2 == [h EXCEPT ![a.tmodel] = UpdateTModel(@, s2, a)]
                 changed == StellarParams(h2, a.tmodel) # old_params
                 ld == SetLimbDarkening(s2, h2, a, changed)
             IN  [self |-> ld.self, heap |-> h2, err |-> ld.err, n_jobs |-> n_jobs]


(***************************************************************************)
(* The loop over orders: light curves and frames                           *)
(***************************************************************************)
\* rows of the frames make_frame builds: the SUBSTRIP256 detector, whatever the subarray
FrameRows == SUBARRAY_Y("SUBSTRIP256")

\* row of the trace centre of an order in a column
TraceRow(order, c) == IF order = 1 THEN c % 2 ELSE FrameRows - 1 - (c % 2)

\* lines 141-142: amplitude of the order's PSF slice of column c, scaled to the star
CubeFlux(order, c) == 2 * ((3 - order) + (c % 2))

\* whether tmodel.t is in days: converted once from its unit, or never if in days
InDays(tm) == tm.tconv = (IF tm.tunit = "days" THEN <<>> ELSE <<tm.tunit>>)

\* sample f of tmodel.t, in days: right, collapsed by one division too many, or unconverted
TModelTime(tm, time, f) ==
    IF InDays(tm) THEN time[f]
    ELSE IF Len(tm.tconv) > 1 THEN 0
    ELSE time[f] * 1000

\* a flux scaled by a light-curve value given in halves (2 is 1.0, 1 is 0.5)
TimesLC(x, lc) == (x * lc) \div 2

\* batman: the light curve at time t of a transit centred on t0, in halves
BatmanLC(t, t0) == IF t = t0 THEN 1 ELSE 2

\* mt.psf_lightcurve for column c of an order: one value per frame
psf_lightcurve(s, h, order, c) ==
    [f \in 1..s.nframes |->
        IF s.tmodel = "None" THEN CubeFlux(order, c)
        ELSE TimesLC(CubeFlux(order, c),
                     BatmanLC(TModelTime(h[s.tmodel], s.time, f), h[s.tmodel].t0))]

\* a planet argument that is a wavelength / radius-ratio pair of equal length
PlanetWellFormed(planet) == planet = "P"

\* line 319: self.ld_coeffs[order-1]; line 325: np.interp(wave, planet[0], planet[1])
OrderInputsError(s, order) ==
    IF s.ld_coeffs.n < order THEN "IndexError"
    ELSE IF s.planet # "None" /\ ~PlanetWellFormed(s.planet) THEN "ValueError"
    ELSE "none"

\* lines 348, 369: ThreadPool(n_jobs)
PoolError(n_jobs) == IF n_jobs < 1 THEN "ValueError" ELSE "none"

\* lines 355-360: psfs.swapaxes(0, 1), then times np.tile(self.time[:ngrps], nints)
FramesOfCurves(s, res) ==
    [f \in 1..s.nframes |->
        [c \in 1..s.ncols |-> res[c][f] * s.time[((f - 1) % s.ngrps) + 1]]]

\* mt.make_frame: the columns' kernels laid along the trace (row-major frame)
make_frame(order, amps) ==
    LET n == Len(amps)
    IN  [i \in 1..(FrameRows * n) |->
            IF (i - 1) \div n = TraceRow(order, (i - 1) % n)
            THEN amps[((i - 1) % n) + 1] ELSE 0]

\* the values of frames k, k+1, ... one after the other
RECURSIVE ConcatFrames(_, _)
ConcatFrames(frames, k) ==
    IF k > Len(frames) THEN <<>> ELSE frames[k] \o ConcatFrames(frames, k + 1)

\* np.asarray of the frames
StackFrames(s, frames) ==
    [shape |-> <<s.nframes, FrameRows, s.ncols>>, v |-> ConcatFrames(frames, 1)]

\* lines 378-379
StoreOrder(s, order, T) ==
    IF order = 1 THEN [s EXCEPT !.tso_order1_ideal = T]
    ELSE [s EXCEPT !.tso_order2_ideal = T]

OrderIdeal(s, order) == IF order = 1 THEN s.tso_order1_ideal ELSE s.tso_order2_ideal

\* lines 342-379 for one order, all tasks joined
OrderTensor(s, h, order) ==
    LET res == [c \in 1..s.ncols |-> psf_lightcurve(s, h, order, c - 1)]
        psfs == FramesOfCurves(s, res)
        frames == [f \in 1..s.nframes |-> make_frame(order, psfs[f])]
    IN  StackFrames(s, frames)

\* np.sum(list of arrays, axis=0)
RECURSIVE SumOrders(_, _)
SumOrders(s, ords) ==
    IF ords = <<>> THEN Scalar(0)
    ELSE IF Len(ords) = 1 THEN OrderIdeal(s, ords[1])
    ELSE AddArr(OrderIdeal(s, ords[1]), SumOrders(s, Tail(ords)))

\* lines 381-386
Combine(s) ==
    LET ideal == SumOrders(s, s.orders)
    IN  [s EXCEPT !.tso_ideal = ideal, !.tso = ideal]


(***************************************************************************)
(* TSO.add_noise, TSO.add_refpix and the end of run_simulation             *)
(***************************************************************************)
\* gd.make_exposure: the dark ramp of group g (cumulative, the same for every integration)
DarkRamp(g, offset) == 2 * (g + 1)

\* gd.add_signal: the signal and the scaled zodiacal background added to the ramp
add_signal(signal, ramp, zodi_scale) == ramp + signal + zodi_scale

\* gd.non_linearity: sub-linear response at high counts
non_linearity(x, offset) == x - (x \div 8)

\* gd.add_pedestal
add_pedestal(x, offset) == x + 3

\* the group a position of the exposure belongs to: axis 0 holds the frames of a
\* 3-d array (group = frame mod ngrps); the ramp broadcasts along axis 1 of a 4-d one
GroupOf(s, T, st1, st2, i) ==
    IF Ndim(T) = 3 THEN CoordS(st1, T.shape[1], i) % s.ngrps
    ELSE CoordS(st2, T.shape[2], i)

\* gd.add_signal handed the baseline itself
RampAliased == "alias"

\* line 477: gd.add_signal is handed RAMP.copy()
RampArgument == "copy"

\* line 470: RAMP, one dark level per group, and no frame slot written yet
NoiseStart(s, tso, offset) ==
    [tso |-> tso,
     RAMP |-> [g \in 1..s.ngrps |-> DarkRamp(g - 1, offset)],
     writes |-> [f \in 1..(IF Ndim(tso) = 0 THEN 0 ELSE tso.shape[1]) |-> 0]]

\* lines 476-486: iteration n of the loop over integrations.  An array handed
\* to gd.add_signal may come back holding the sum (here at the first pixel of
\* each frame), which reaches RAMP only when RAMP itself was handed over.
NoiseStep(s, n, st, zodi_scale, offset) ==
    LET lo == s.ngrps * n
        hi == s.ngrps * n + s.ngrps
        tso == st.tso
        st1 == Stride(tso.shape, 1)
        st2 == Stride(tso.shape, 2)
        new == [i \in DOMAIN tso.v |->
                  IF (i - 1) \div st1 >= lo /\ (i - 1) \div st1 < hi
                  THEN add_pedestal(
                         non_linearity(
                           add_signal(s.tso_ideal.v[i],
                                      st.RAMP[GroupOf(s, tso, st1, st2, i) + 1],
                                      zodi_scale),
                           offset),
                         offset)
                  ELSE tso.v[i]]
        summed == [g \in DOMAIN st.RAMP |->
                     LET i == (lo + g - 1) * st1 + 1
                     IN  add_signal(IF i \in DOMAIN s.tso_ideal.v
                                    THEN s.tso_ideal.v[i] ELSE 0,
                                    st.RAMP[g], zodi_scale)]
    IN  [tso |-> [tso EXCEPT !.v = new],
         RAMP |-> IF RampArgument = "copy" THEN st.RAMP ELSE summed,
         writes |-> [f \in DOMAIN st.writes |->
                       IF f - 1 >= lo /\ f - 1 < hi THEN st.writes[f] + 1
                       ELSE st.writes[f]]]

\* lines 473-486: iterations n, n+1, ... nints-1 of the loop over integrations
RECURSIVE NoiseLoop(_, _, _, _, _)
NoiseLoop(s, n, st, zodi_scale, offset) ==
    IF n >= s.nints THEN st
    ELSE NoiseLoop(s, n + 1, NoiseStep(s, n, st, zodi_scale, offset), zodi_scale, offset)

\* what add_noise raises, or "none":
\*   line 454/465: np.asarray of two arrays of different dimension, then np.mean(axis=1)
\*   line 477: a slice of a 0-d tso_ideal; a ramp of 256 rows added to other rows
add_noise_error(s) ==
    IF Ndim(s.tso_order1_ideal) # Ndim(s.tso_order2_ideal) THEN "ShapeError"
    ELSE IF s.nints > 0 /\ Ndim(s.tso_ideal) = 0 THEN "IndexError"
    ELSE IF s.nints > 0 /\ s.tso_ideal.shape[Ndim(s.tso_ideal) - 1] # FrameRows
         THEN "ValueError"
    ELSE "none"

\* lines 439-488
add_noise(s, zodi_scale, offset) ==
    IF add_noise_error(s) # "none" THEN [err |-> add_noise_error(s), self |-> s]
    ELSE [err |-> "none",
          self |-> [s EXCEPT !.tso = NoiseLoop(s, 0, NoiseStart(s, s.tso, offset),
                                          zodi_scale, offset).tso]]

\* lines 498-501: tso[:, :, :4], tso[:, :, -4:] and tso[:, -4:, :] set to counts
\* (4 is RefWidth on the scaled detector)
InRefpix(shape, st2, st3, i) ==
    \/ CoordS(st3, shape[3], i) < RefWidth
    \/ CoordS(st3, shape[3], i) >= shape[3] - RefWidth
    \/ CoordS(st2, shape[2], i) >= shape[2] - RefWidth

add_refpix(s, counts) ==
    LET st2 == Stride(s.tso.shape, 2)
        st3 == Stride(s.tso.shape, 3)
    IN  [s EXCEPT !.tso.v = [i \in DOMAIN @ |->
                               IF InRefpix(s.tso.shape, st2, st3, i) THEN counts
                               ELSE @[i]]]

\* lines 392-397
TrimSubstrip96(s) ==
    IF s.subarray = "SUBSTRIP96"
    THEN [s EXCEPT !.tso = TrimAxis1(@, s.nrows),
                   !.tso_ideal = TrimAxis1(@, s.nrows),
                   !.tso_order1_ideal = TrimAxis1(@, s.nrows),
                   !.tso_order2_ideal = TrimAxis1(@, s.nrows)]
    ELSE s

\* lines 399-403: the four reshapes, in order; the first that cannot be done raises
ReshapeAll(s) ==
    IF ~CanReshape(s.tso, s.dims) THEN [err |-> "ValueError", self |-> s]
    ELSE LET s1 == [s EXCEPT !.tso = Reshape(@, s.dims)]
         IN  IF ~CanReshape(s1.tso_ideal, s.dims) THEN [err |-> "ValueError", self |-> s1]
         ELSE LET s2 == [s1 EXCEPT !.tso_ideal = Reshape(@, s.dims)]
              IN  IF ~CanReshape(s2.tso_order1_ideal, s.dims)
                  THEN [err |-> "ValueError", self |-> s2]
              ELSE LET s3 == [s2 EXCEPT !.tso_order1_ideal = Reshape(@, s.dims)]
                   IN  IF ~CanReshape(s3.tso_order2_ideal, s.dims)
                       THEN [err |-> "ValueError", self |-> s3]
                       ELSE [err |-> "none",
                             self |-> [s3 EXCEPT !.tso_order2_ideal = Reshape(@, s.dims)]]

\* lines 381-403
RunEpilogue(s) ==
    LET noisy == add_noise(Combine(s), 1, 500)
    IN  IF noisy.err # "none" THEN noisy
        ELSE ReshapeAll(TrimSubstrip96(add_refpix(noisy.self, 0)))

\* lines 309-379: the loop over the orders still to do; pools counts the pools started
RECURSIVE RunOrders(_, _, _, _, _)
RunOrders(s, h, n_jobs, ords, pools) ==
    IF ords = <<>> THEN [err |-> "none", self |-> s, pools |-> pools]
    ELSE IF OrderInputsError(s, Head(ords)) # "none"
    THEN [err |-> OrderInputsError(s, Head(ords)), self |-> s, pools |-> pools]
    ELSE IF PoolError(n_jobs) # "none"
    THEN [err |-> PoolError(n_jobs), self |-> s, pools |-> pools]
    ELSE RunOrders(StoreOrder(s, Head(ords), OrderTensor(s, h, Head(ords))),
                   h, n_jobs, Tail(ords), pools + 2)

\* TSO.run_simulation as a whole: the object, the caller's models, the exception
\* raised (or "none") and the number of pools started
run_simulation(s, h, a) ==
    LET p == RunPrologue(s, h, a)
    IN  IF p.err # "none"
        THEN [self |-> p.self, heap |-> p.heap, err |-> p.err, pools |-> 0]
        ELSE LET o == RunOrders(p.self, p.heap, p.n_jobs, p.self.orders, 0)
             IN  IF o.err # "none"
                 THEN [self |-> o.self, heap |-> p.heap, err |-> o.err, pools |-> o.pools]
                 ELSE LET e == RunEpilogue(o.self)
                      IN  [self |-> e.self, heap |-> p.heap, err |-> e.err,
                           pools |-> o.pools]


(***************************************************************************)
(* The sim2D generation: lambda_lightcurve and class TSO                   *)
(***************************************************************************)
\* an interpolation that holds the edge value outside [wmin, wmax]
StarInterpHeld(star, x) == star.flux

\* np.interp(x, star[0], star[1], left=0, right=0) for a flat star on [wmin, wmax]
StarInterp(star, x) == IF x < star.wmin \/ x > star.wmax THEN 0 ELSE star.flux

\* lines 421-422: flux[flux<floor] += floor
FloorBump(x, floor) == IF x < floor THEN x + floor ELSE x

\* what a value passed as ld_coeffs is: a Python list, a numpy array or a float
\* (kind), holding the numbers v, or (of) one value of another kind
IsList(x) == x.kind = "list"
IsNdarray(x) == x.kind = "ndarray"

\* lines 358-360: the coefficients and the law handed on to the transit model
ld_arguments(ld_coeffs, ld_profile) ==
    IF ~IsList(ld_coeffs) \/ ~IsNdarray(ld_coeffs)
    THEN [u |-> [kind |-> "list", v |-> ld_coeffs.v, of |-> ld_coeffs.kind],
          limb_dark |-> "linear"]
    ELSE [u |-> ld_coeffs, limb_dark |-> ld_profile]

\* lines 363-367: the test for a background pixel.  Wavelengths are whole numbers;
\* the F277W passband (2.36989 to 3.22972 um) is the one wavelength 3.
IsBackground(wavelength, psf_loc, star, filt, trace_radius) ==
    \/ psf_loc > trace_radius
    \/ psf_loc < -trace_radius
    \/ wavelength < star.wmin
    \/ (filt = "F277W" /\ wavelength < 3)
    \/ (filt = "F277W" /\ wavelength > 3)

\* lines 397-410: whether the transit model is evaluated, and with what
transit_call(wavelength, psf_loc, ld_coeffs, ld_profile, star, planet, filt, trace_radius) ==
    [called |-> ~IsBackground(wavelength, psf_loc, star, filt, trace_radius) /\ planet # "",
     limb_dark |-> ld_arguments(ld_coeffs, ld_profile).limb_dark,
     u |-> ld_arguments(ld_coeffs, ld_profile).u]

\* lines 378-419: the samples of a trace pixel after all scaling
scaled_flux(wavelength, response, psf_loc, pfd2adu, star, planet, time, params) ==
    LET flux0 == StarInterp(star, wavelength) * wavelength * pfd2adu
    IN  [f \in 1..Len(time) |->
            LET lit == IF planet = "" THEN flux0
                       ELSE TimesLC(flux0, BatmanLC(time[f], params.t0))
            IN  lit * response * psf_loc]

\* lines 356-430
lambda_lightcurve(wavelength, response, psf_loc, pfd2adu, ld_coeffs, ld_profile, star, planet, time, params, filt, trace_radius, floor) ==
    IF IsBackground(wavelength, psf_loc, star, filt, trace_radius)
    THEN [f \in 1..Len(time) |-> floor]
    ELSE LET flux == scaled_flux(wavelength, response, psf_loc, pfd2adu, star, planet,
                                 time, params)
         IN  [f \in 1..Len(time) |-> FloorBump(flux[f], floor)]

\* the star of the sim2D runs: flat, defined on the wavelengths of the inner columns
OldStar == [wmin |-> 2, wmax |-> NCols - 1, flux |-> 2]

\* self.wave[order-1]: the wavelength of a pixel (here: of its column)
OldWave(order, r, c) == c + 1

\* distance_map(order): the distance of a pixel from the centre of the trace
distance_map(order, r, c) == r - TraceRow(order, c)

\* psf_position: the cross-dispersion PSF profile interpolated at a distance, on a
\* whole-number scale: 2 at the centre, 1 a pixel away, 0 in the wings
psf_position(distance) ==
    IF distance = 0 THEN 2 ELSE IF distance = 1 \/ distance = -1 THEN 1 ELSE 0

\* lines 612-709 (the attributes the simulation uses)
OldConstruct(subarray, ngrps, nints) ==
    LET time == get_frame_times(subarray, ngrps, nints, 0, NResets)
        dims == <<Len(time), SUBARRAY_Y(subarray), NCols>>
    IN  [subarray |-> subarray, nrows |-> SUBARRAY_Y(subarray), ncols |-> NCols,
         ngrps |-> ngrps, nints |-> nints, time |-> time, nframes |-> Len(time),
         filter |-> "CLEAR", star |-> OldStar, planet |-> "", params |-> [t0 |-> 0],
         ld_profile |-> "quadratic", simulated |-> <<>>,
         tso |-> Zeros(dims), tso_ideal |-> Zeros(dims),
         tso_order1 |-> Zeros(dims), tso_order2 |-> Zeros(dims)]

\* lines 731-734: 'F277W' in filt.upper()
IsF277W(filt) == filt \in {"F277W", "f277w"}

\* lines 724-734: the orders the call simulates
OldOrders(orders, filt) ==
    IF IsF277W(filt) THEN <<1>> ELSE SortedSeq(Range(OrdersList(orders)))

\* lines 748-793: the light curves of an order, one per pixel, as frames
OldOrderTensor(o, order) ==
    [shape |-> <<o.nframes, o.nrows, o.ncols>>,
     v |-> LET px == [k \in 1..(o.nrows * o.ncols) |->
                        LET r == (k - 1) \div o.ncols
                            c == (k - 1) % o.ncols
                        IN  lambda_lightcurve(OldWave(order, r, c), 1,
                                              psf_position(distance_map(order, r, c)), 1,
                                              [kind |-> "ndarray", v |-> <<0, 0>>, of |-> "number"],
                                              o.ld_profile, o.star, o.planet, o.time,
                                              o.params, o.filter, 25, 2)]
           IN  [i \in 1..(o.nframes * o.nrows * o.ncols) |->
                  px[((i - 1) % (o.nrows * o.ncols)) + 1]
                    [((i - 1) \div (o.nrows * o.ncols)) + 1]]]

\* lines 745-801: the loop over orders
RECURSIVE OldRunOrders(_, _)
OldRunOrders(o, ords) ==
    IF ords = <<>> THEN o
    ELSE LET T == OldOrderTensor(o, Head(ords))
             o1 == [o EXCEPT !.tso = AddArr(@, T)]
             o2 == IF Head(ords) = 1 THEN [o1 EXCEPT !.tso_order1 = T]
                   ELSE [o1 EXCEPT !.tso_order2 = T]
         IN  OldRunOrders(o2, Tail(ords))

\* lines 810-856
old_add_noise(o, zodi_scale, offset) ==
    [o EXCEPT !.tso = NoiseLoop(o, 0, NoiseStart(o, o.tso, offset),
                                zodi_scale, offset).tso]

\* lines 711-808: sim2D TSO.run_simulation for well-formed orders
old_run_simulation(o, orders, filt, noise) ==
    LET ords == OldOrders(orders, filt)
        o1 == IF IsF277W(filt) THEN [o EXCEPT !.filter = "F277W"] ELSE o
        o2 == OldRunOrders([o1 EXCEPT !.simulated = ords], ords)
        o3 == [o2 EXCEPT !.tso_ideal = o2.tso]
    IN  IF noise THEN old_add_noise(o3, 1, 500) ELSE o3

(***************************************************************************)
(* Inputs                                                                  *)
(***************************************************************************)
GoodStar == [seq |-> TRUE, el |-> <<"um", "flam">>]

\* stars: every list of one to three elements, a list of four, and a bare array
StarInputs ==
    {[seq |-> TRUE, el |-> e] :
        e \in UNION {[1..n -> UnitKinds] : n \in 1..3}}
    \cup {[seq |-> TRUE, el |-> <<"um", "flam", "flam", "flam">>],
          [seq |-> FALSE, el |-> <<"um", "flam">>]}

\* orders: an int, or a list
OrderInputs ==
    {[isint |-> TRUE, l |-> <<n>>] : n \in 1..3}
    \cup {[isint |-> FALSE, l |-> q] :
            q \in {<<>>, <<1>>, <<2>>, <<1, 2>>, <<2, 1>>, <<1, 1>>, <<3>>, <<1, 3>>}}

Filters == {"CLEAR", "F277W"}

\* constructor calls, well-formed or not
CtorInputs ==
    [ngrps : {MaxGrps}, nints : {MaxInts}, star : StarInputs, filt : Filters,
     subarray : Subarrays \cup {"SUBSTRIP512"}, orders : OrderInputs, t0 : {0}]

\* exposure start times: zero, after zero and before zero
StartTimes == {0, 7, -10}

\* constructor calls that return an object
Configs ==
    [ngrps : {MaxGrps}, nints : {MaxInts}, star : {GoodStar}, filt : Filters,
     subarray : Subarrays,
     orders : {[isint |-> FALSE, l |-> q] : q \in {<<>>, <<1>>, <<2>>, <<1, 2>>}},
     t0 : StartTimes]

\* the caller's two transit models: one with no law and no t0 set, built on a
\* time axis in seconds; one fully set, built on a time axis in days
InitialHeap ==
    [id \in TModelIds |->
        IF id = "tmA"
        THEN [sp |-> 1, limb_dark |-> "None", t0set |-> FALSE, t0 |-> 0,
              tunit |-> "seconds", tconv |-> <<>>]
        ELSE [sp |-> 2, limb_dark |-> "quadratic", t0set |-> TRUE, t0 |-> 17,
              tunit |-> "days", tconv |-> <<>>]]

\* run_simulation calls.  Arguments the call never reads are left at their defaults:
\* without a planet and a transit model nothing else is read, explicit coefficients
\* hide the model grid, and a rejected time unit ends the call before either is read.
\* The time axis of a transit model is converted in calls that set no coefficients.
RunInputsFor(jobs) ==
    {a \in [planet : {"None", "P", "Pbad"}, tmodel : {"None"} \cup TModelIds,
            ld_coeffs : {"None", "arr3", "arr1", "list"},
            time_unit : {"days", "seconds", "weeks"},
            ld_profile : {"quadratic"},
            model_grid : {"None", "grid"},
            n_jobs : jobs] :
        /\ (a.planet = "None" \/ a.tmodel = "None") =>
              /\ a.ld_coeffs = "None" /\ a.time_unit = "days" /\ a.model_grid = "None"
              /\ (a.planet = "None" => a.tmodel = "None")
        /\ a.ld_coeffs # "None" => a.model_grid = "None"
        /\ a.time_unit # "days" => (a.ld_coeffs = "None" /\ a.model_grid = "None")}

\* n_jobs: all cores and none
RunInputs == RunInputsFor({-1, 0})

NoArgs == [ngrps |-> 0, nints |-> 0, star |-> NoStar, filt |-> "", subarray |-> "",
           orders |-> [isint |-> FALSE, l |-> <<>>], t0 |-> 0]

IdleLoc == [n_jobs |-> 0, pools |-> 0, oi |-> 0, next |-> 0, ntasks |-> 0,
            running |-> {}, done |-> {}, res |-> <<>>, psfs |-> <<>>, frames |-> <<>>,
            n |-> 0, RAMP |-> <<>>, writes |-> <<>>]

NoOld == OldConstruct("SUBSTRIP256", 1, 1)

(***************************************************************************)
(* Specification SpecInit: TSO.__init__ (awesimsoss), statement by         *)
(* statement, for every constructor call                                   *)
(***************************************************************************)
InitCtor ==
    /\ args \in CtorInputs
    /\ self = Blank
    /\ heap = InitialHeap
    /\ err = "none"
    /\ calls = 0
    /\ pc = "new"
    /\ loc = IdleLoc
    /\ stages = <<>>
    /\ old = NoOld
    /\ hist = <<>>

Raise(e) == err' = e /\ pc' = "raised"

\* lines 96-97 and 162-192
ICheckStar ==
    /\ pc = "new"
    /\ IF check_star_error(args.star) # "none"
       THEN Raise(check_star_error(args.star)) /\ self' = self
       ELSE self' = InitCheckStar(self, args) /\ pc' = "i_attrs" /\ err' = err
    /\ UNCHANGED <<heap, calls, args, loc, stages, old, hist>>

\* lines 99-117; line 101 raises KeyError for an unknown subarray
IAttrs ==
    /\ pc = "i_attrs"
    /\ IF args.subarray \notin Subarrays
       THEN /\ Raise("KeyError")
            /\ self' = [self EXCEPT !.subarray = args.subarray, !.has = @ \cup {"subarray"}]
       ELSE self' = InitAttrs(self, args) /\ pc' = "i_target" /\ err' = err
    /\ UNCHANGED <<heap, calls, args, loc, stages, old, hist>>

\* lines 119-124
ITarget ==
    /\ pc = "i_target"
    /\ self' = InitTarget(self)
    /\ pc' = "i_orders"
    /\ UNCHANGED <<heap, err, calls, args, loc, stages, old, hist>>

\* lines 126-131
IOrders ==
    /\ pc = "i_orders"
    /\ IF ~OrdersValid(args.orders)
       THEN Raise("TypeError") /\ self' = self
       ELSE self' = InitOrders(self, args) /\ pc' = "i_filter" /\ err' = err
    /\ UNCHANGED <<heap, calls, args, loc, stages, old, hist>>

\* lines 133-135
IFilter ==
    /\ pc = "i_filter"
    /\ self' = InitFilter(self)
    /\ pc' = "i_psfs"
    /\ UNCHANGED <<heap, err, calls, args, loc, stages, old, hist>>

\* lines 137-143
IPsfs ==
    /\ pc = "i_psfs"
    /\ self' = InitPsfs(self)
    /\ pc' = "i_calib"
    /\ UNCHANGED <<heap, err, calls, args, loc, stages, old, hist>>

\* lines 145-152
ICalib ==
    /\ pc = "i_calib"
    /\ self' = InitCalib(self)
    /\ pc' = "i_alloc"
    /\ UNCHANGED <<heap, err, calls, args, loc, stages, old, hist>>

\* lines 154-160
IAlloc ==
    /\ pc = "i_alloc"
    /\ self' = InitAlloc(self)
    /\ pc' = "idle"
    /\ UNCHANGED <<heap, err, calls, args, loc, stages, old, hist>>

NextCtor ==
    \/ ICheckStar \/ IAttrs \/ ITarget \/ IOrders
    \/ IFilter \/ IPsfs \/ ICalib \/ IAlloc

SpecInit == InitCtor /\ [][NextCtor]_vars

(***************************************************************************)
(* Specification Spec: a constructed TSO (awesimsoss) and a sequence of    *)
(* run_simulation calls, each a whole call                                 *)
(***************************************************************************)
Init ==
    /\ args \in Configs
    /\ self = Construct(args)
    /\ heap = InitialHeap
    /\ err = "none"
    /\ calls = 0
    /\ pc = "idle"
    /\ loc = IdleLoc
    /\ stages = <<>>
    /\ old = NoOld
    /\ hist = <<>>

RunSimulation(a) ==
    /\ pc = "idle"
    /\ calls < MaxRuns
    /\ LET r == run_simulation(self, heap, a)
       IN  /\ self' = r.self
           /\ heap' = r.heap
           /\ err' = r.err
           /\ loc' = [IdleLoc EXCEPT !.pools = r.pools]
    /\ calls' = calls + 1
    /\ hist' = Append(hist, a)
    /\ UNCHANGED <<pc, args, stages, old>>

Next == \E a \in RunInputs : RunSimulation(a)

Spec == Init /\ [][Next]_vars


(***************************************************************************)
(* Specification SpecSim2D: a sim2D TSO on SUBSTRIP256, without a planet,  *)
(* and a sequence of run_simulation calls                                  *)
(***************************************************************************)
InitSim2D ==
    /\ \E g \in 1..MaxGrps, n \in 1..MaxInts : old = OldConstruct("SUBSTRIP256", g, n)
    /\ hist = <<>>
    /\ args = NoArgs
    /\ self = Blank
    /\ heap = InitialHeap
    /\ err = "none"
    /\ calls = 0
    /\ pc = "idle"
    /\ loc = IdleLoc
    /\ stages = <<>>

OldRunSimulation(orders, filt, noise) ==
    /\ Len(hist) < MaxRuns
    /\ IF ~OrdersValid(orders)
       THEN err' = "TypeError" /\ old' = old
       ELSE err' = "none" /\ old' = old_run_simulation(old, orders, filt, noise)
    /\ hist' = Append(hist, [orders |-> orders, filt |-> filt, noise |-> noise,
                              err |-> err', tso_ideal |-> old'.tso_ideal,
                              tso_order1 |-> old'.tso_order1,
                              tso_order2 |-> old'.tso_order2])
    /\ UNCHANGED <<self, heap, calls, pc, args, loc, stages>>

NextSim2D ==
    \E orders \in OrderInputs, filt \in {"CLEAR", "F277W", "f277w"}, noise \in BOOLEAN :
        OldRunSimulation(orders, filt, noise)

SpecSim2D == InitSim2D /\ [][NextSim2D]_vars

(***************************************************************************)
(* Specification SpecRun: one run_simulation call (awesimsoss) on a        *)
(* constructed TSO, stage by stage, with the tasks of its thread pools     *)
(***************************************************************************)
\* ThreadPool(n_jobs) with ntasks tasks queued, none handed out
NewPool(l, ntasks, width) ==
    [l EXCEPT !.pools = @ + 1, !.ntasks = ntasks, !.next = 1, !.running = {},
              !.done = {},
              !.res = [t \in 1..ntasks |-> [k \in 1..width |-> 0]]]

\* a pool that is left as soon as one task has delivered
PoolJoinedEarly(l) == l.done # {}

\* pool.starmap / pool.map return, and pool.join(): every task has delivered
PoolJoined(l) == l.done = 1..l.ntasks

\* a stage of the run in flight that has finished
Stage(name, order, l) ==
    [stage |-> name, order |-> order, tasks |-> Cardinality(l.done),
     running |-> Cardinality(l.running)]

CurrentOrder == self.orders[loc.oi]

\* n_jobs: below -1, all cores (-1), none, one, and more than there are cores
JobInputs == {-2, -1, 0, 1, MaxCores + 1}

InitRun ==
    /\ args \in {c \in Configs : c.t0 = 0}
    /\ self = Construct(args)
    /\ heap = InitialHeap
    /\ err = "none"
    /\ calls = 0
    /\ pc = "idle"
    /\ loc = IdleLoc
    /\ stages = <<>>
    /\ old = NoOld
    /\ hist = <<>>

\* lines 247-307
RBegin(a) ==
    /\ pc = "idle"
    /\ calls = 0
    /\ LET p == RunPrologue(self, heap, a)
       IN  /\ self' = p.self
           /\ heap' = p.heap
           /\ err' = p.err
           /\ loc' = [IdleLoc EXCEPT !.n_jobs = p.n_jobs, !.oi = 1]
           /\ IF p.err # "none"
              THEN pc' = "idle" /\ calls' = calls + 1
              ELSE pc' = "order" /\ calls' = calls
    /\ hist' = Append(hist, a)
    /\ stages' = <<>>
    /\ UNCHANGED <<args, old>>

\* lines 310-350: the next order, up to the start of its light-curve pool
ROrder ==
    /\ pc = "order"
    /\ IF loc.oi > Len(self.orders)
       THEN pc' = "combine" /\ UNCHANGED <<err, calls, loc>>
       ELSE IF OrderInputsError(self, CurrentOrder) # "none"
       THEN /\ err' = OrderInputsError(self, CurrentOrder)
            /\ pc' = "idle" /\ calls' = calls + 1 /\ loc' = loc
       ELSE IF PoolError(loc.n_jobs) # "none"
       THEN /\ err' = PoolError(loc.n_jobs)
            /\ pc' = "idle" /\ calls' = calls + 1 /\ loc' = loc
       ELSE /\ loc' = NewPool(loc, self.ncols, self.nframes)
            /\ pc' = "lightcurves"
            /\ UNCHANGED <<err, calls>>
    /\ UNCHANGED <<self, heap, args, stages, old, hist>>

\* a worker thread takes the next task of the pool
TaskStart ==
    /\ pc \in {"lightcurves", "frames"}
    /\ loc.next <= loc.ntasks
    /\ Cardinality(loc.running) < loc.n_jobs
    /\ loc' = [loc EXCEPT !.running = @ \cup {loc.next}, !.next = @ + 1]
    /\ UNCHANGED <<self, heap, err, calls, pc, args, stages, old, hist>>

\* line 351: a worker thread returns from mt.psf_lightcurve
LightcurveDone(t) ==
    /\ pc = "lightcurves"
    /\ t \in loc.running
    /\ loc' = [loc EXCEPT !.running = @ \ {t}, !.done = @ \cup {t},
                          !.res[t] = psf_lightcurve(self, heap, CurrentOrder, t - 1)]
    /\ UNCHANGED <<self, heap, err, calls, pc, args, stages, old, hist>>

\* lines 351-369: the light curves are joined, made into frames, and the
\* frame pool is started
LightcurvesJoin ==
    /\ pc = "lightcurves"
    /\ PoolJoined(loc)
    /\ stages' = Append(stages, Stage("lightcurves", CurrentOrder, loc))
    /\ loc' = [NewPool(loc, self.nframes, FrameRows * self.ncols)
                 EXCEPT !.psfs = FramesOfCurves(self, loc.res)]
    /\ pc' = "frames"
    /\ UNCHANGED <<self, heap, err, calls, args, old, hist>>

\* line 370: a worker thread returns from mt.make_frame
FrameDone(t) ==
    /\ pc = "frames"
    /\ t \in loc.running
    /\ loc' = [loc EXCEPT !.running = @ \ {t}, !.done = @ \cup {t},
                          !.res[t] = make_frame(CurrentOrder, loc.psfs[t])]
    /\ UNCHANGED <<self, heap, err, calls, pc, args, stages, old, hist>>

\* lines 370-372
FramesJoin ==
    /\ pc = "frames"
    /\ PoolJoined(loc)
    /\ stages' = Append(stages, Stage("frames", CurrentOrder, loc))
    /\ loc' = [loc EXCEPT !.frames = loc.res, !.running = {}, !.done = {},
                          !.ntasks = 0, !.next = 0, !.res = <<>>, !.psfs = <<>>]
    /\ pc' = "store"
    /\ UNCHANGED <<self, heap, err, calls, args, old, hist>>

\* lines 378-379
RStore ==
    /\ pc = "store"
    /\ self' = StoreOrder(self, CurrentOrder, StackFrames(self, loc.frames))
    /\ stages' = Append(stages, Stage("stored", CurrentOrder, loc))
    /\ loc' = [loc EXCEPT !.oi = @ + 1, !.frames = <<>>]
    /\ pc' = "order"
    /\ UNCHANGED <<heap, err, calls, args, old, hist>>

\* lines 381-386
RCombine ==
    /\ pc = "combine"
    /\ self' = Combine(self)
    /\ stages' = Append(stages, Stage("combined", 0, loc))
    /\ pc' = "noise"
    /\ UNCHANGED <<heap, err, calls, args, loc, old, hist>>

\* lines 387 and 439-470: add_noise up to the loop over integrations
RNoise ==
    /\ pc = "noise"
    /\ err' = add_noise_error(self)
    /\ IF add_noise_error(self) # "none"
       THEN pc' = "idle" /\ calls' = calls + 1 /\ loc' = loc
       ELSE /\ pc' = "integrations" /\ calls' = calls
            /\ LET st == NoiseStart(self, self.tso, 500)
               IN  loc' = [loc EXCEPT !.n = 0, !.RAMP = st.RAMP, !.writes = st.writes]
    /\ UNCHANGED <<self, heap, args, stages, old, hist>>

\* lines 473-486: one integration of the loop
RIntegration ==
    /\ pc = "integrations"
    /\ loc.n < self.nints
    /\ LET st == NoiseStep(self, loc.n,
                           [tso |-> self.tso, RAMP |-> loc.RAMP, writes |-> loc.writes],
                           1, 500)
       IN  /\ self' = [self EXCEPT !.tso = st.tso]
           /\ loc' = [loc EXCEPT !.n = @ + 1, !.RAMP = st.RAMP, !.writes = st.writes]
    /\ UNCHANGED <<heap, err, calls, pc, args, stages, old, hist>>

\* line 488: add_noise returns
RNoiseDone ==
    /\ pc = "integrations"
    /\ loc.n >= self.nints
    /\ stages' = Append(stages, Stage("noise", 0, loc))
    /\ pc' = "refpix"
    /\ UNCHANGED <<self, heap, err, calls, args, loc, old, hist>>

\* line 390
RRefpix ==
    /\ pc = "refpix"
    /\ self' = add_refpix(self, 0)
    /\ stages' = Append(stages, Stage("refpix", 0, loc))
    /\ pc' = "reshape"
    /\ UNCHANGED <<heap, err, calls, args, loc, old, hist>>

\* lines 392-403
RReshape ==
    /\ pc = "reshape"
    /\ LET r == ReshapeAll(TrimSubstrip96(self))
       IN  /\ self' = r.self
           /\ err' = r.err
           /\ stages' = IF r.err = "none"
                        THEN Append(stages, Stage("reshaped", 0, loc)) ELSE stages
    /\ pc' = "idle"
    /\ calls' = calls + 1
    /\ UNCHANGED <<heap, args, loc, old, hist>>

NextRun ==
    \/ \E a \in RunInputsFor(JobInputs) : RBegin(a)
    \/ ROrder
    \/ TaskStart
    \/ \E t \in 1..NCols : LightcurveDone(t)
    \/ LightcurvesJoin
    \/ \E t \in 1..(MaxGrps * MaxInts) : FrameDone(t)
    \/ FramesJoin
    \/ RStore
    \/ RCombine
    \/ RNoise
    \/ RIntegration
    \/ RNoiseDone
    \/ RRefpix
    \/ RReshape

SpecRun == InitRun /\ [][NextRun]_vars

(***************************************************************************)
(* Properties                                                              *)
(***************************************************************************)
LastCall == hist[Len(hist)]

\* C1: two run_simulation calls in a row with the same arguments leave the
\* ideal tensors (combined and per order) as they were after the first of the
\* two: nothing accumulates.  (sim2D, specification SpecSim2D)
C1_Idempotent ==
    \A i \in 2..Len(hist) :
        (/\ hist[i].orders = hist[i - 1].orders
         /\ hist[i].filt = hist[i - 1].filt
         /\ hist[i].noise = hist[i - 1].noise
         /\ hist[i].err = "none")
        => /\ hist[i].tso_ideal = hist[i - 1].tso_ideal
           /\ hist[i].tso_order1 = hist[i - 1].tso_order1
           /\ hist[i].tso_order2 = hist[i - 1].tso_order2

\* a star that passes the four tests of _check_star
StarAccepted(star) ==
    /\ star.seq
    /\ Len(star.el) \in {2, 3}
    /\ \A i \in DOMAIN star.el : IsQuantity(star.el[i])
    /\ IsLength(star.el[1])
    /\ \A i \in 2..Len(star.el) : IsFlam(star.el[i])

\* C2: once _check_star has run, a star that fails one of its tests has made
\* __init__ raise ValueError with the star attribute unset, and every other
\* star is stored.  (specification SpecInit)
C2_CheckStar ==
    pc # "new" =>
        IF StarAccepted(args.star)
        THEN "star" \in self.has /\ self.star = args.star
        ELSE pc = "raised" /\ err = "ValueError" /\ "star" \notin self.has

\* C3: whenever the latest run_simulation call ran with F277W, the order-2
\* tensor is all zeros.  (sim2D, specification SpecSim2D)
C3_Order2Zero ==
    (hist # <<>> /\ LastCall.err = "none" /\ IsF277W(LastCall.filt))
        => IsZero(old.tso_order2)

\* C4: when the filter of the TSO is F277W, the orders the latest call
\* simulated are the requested orders that F277W allows (requested
\* intersected with {1}).  (sim2D, specification SpecSim2D)
C4_FilterRestricts ==
    (hist # <<>> /\ LastCall.err = "none" /\ old.filter = "F277W")
        => Range(old.simulated) = Range(OrdersList(LastCall.orders)) \cap {1}

\* the pixels of frame-stack T (rows and columns on the last two axes) that lie in
\* the left RefWidth columns, the right RefWidth columns or the top RefWidth rows
BorderPixels(T) ==
    LET n == Ndim(T)
        rows == T.shape[n - 1]
        cols == T.shape[n]
    IN  {i \in DOMAIN T.v :
            \/ (i - 1) % cols < RefWidth
            \/ (i - 1) % cols >= cols - RefWidth
            \/ ((i - 1) \div cols) % rows >= rows - RefWidth}

\* C5: after a run_simulation that completed, on every subarray, every pixel
\* of the final noisy tensor in the left and right reference columns and in
\* the top reference rows is the reference constant 0.  (specification Spec)
C5_RefpixBorder ==
    (calls > 0 /\ err = "none") => \A i \in BorderPixels(self.tso) : self.tso.v[i] = 0

\* the stages of a complete run over the given orders, in order
RECURSIVE ExpectedStages(_)
ExpectedStages(ords) ==
    IF ords = <<>>
    THEN <<<<"combined", 0>>, <<"noise", 0>>, <<"refpix", 0>>, <<"reshaped", 0>>>>
    ELSE <<<<"lightcurves", Head(ords)>>, <<"frames", Head(ords)>>,
           <<"stored", Head(ords)>>>> \o ExpectedStages(Tail(ords))

\* C6: within one run_simulation the stages finish in the order: per order,
\* light curves joined, frames joined, tensor stored; then combined, noise,
\* reference pixels, reshape.  Each pool is joined with all its tasks done and
\* none running before the next stage starts, and a run that completes has
\* been through every stage.  (specification SpecRun)
C6_StageOrder ==
    LET exp == ExpectedStages(self.orders)
    IN  /\ Len(stages) <= Len(exp)
        /\ \A i \in DOMAIN stages :
              /\ <<stages[i].stage, stages[i].order>> = exp[i]
              /\ stages[i].running = 0
              /\ stages[i].stage = "lightcurves" => stages[i].tasks = self.ncols
              /\ stages[i].stage = "frames" => stages[i].tasks = self.nframes
        /\ pc \notin {"lightcurves", "frames"} => loc.running = {}
        /\ (pc = "idle" /\ calls > 0 /\ err = "none") => Len(stages) = Len(exp)

\* a run over two orders that completed, every pool joined with all its tasks
C6_Witness ==
    /\ pc = "idle" /\ calls > 0 /\ err = "none"
    /\ Len(self.orders) = 2
    /\ Len(stages) = 10
    /\ stages[1].tasks = NCols
    /\ stages[2].tasks = MaxGrps * MaxInts
    /\ loc.n_jobs = MaxCores

\* a call with a planet, a transit model and a model grid but no coefficients
DerivingCall(a) ==
    /\ a.planet # "None"
    /\ a.tmodel \in TModelIds
    /\ a.model_grid = "grid"
    /\ a.ld_coeffs = "None"

\* C7: after any sequence of calls with a planet, a transit model and a model
\* grid but no explicit coefficients, the stored coefficients are those
\* derived from the stellar parameters and the law of the latest call's
\* transit model.  (specification Spec)
C7_LdCached ==
    (hist # <<>> /\ \A i \in DOMAIN hist : DerivingCall(hist[i]))
        => /\ self.ld_coeffs.src = "derived"
           /\ self.ld_coeffs.sp = heap[LastCall.tmodel].sp
           /\ self.ld_coeffs.law = heap[LastCall.tmodel].limb_dark

\* C8: a first call with a planet, a transit model and a model grid but no
\* explicit coefficients derives the coefficients, stores them, and goes on
\* to simulate the configured orders with them.  (specification Spec)
C8_LdDerivedFirstCall ==
    (Len(hist) = 1 /\ DerivingCall(hist[1]))
        => /\ self.ld_coeffs.src = "derived"
           /\ err # "NameError"
           /\ (self.orders # <<>> /\ loc.n_jobs # 0 => loc.pools > 0)

\* C9: a run_simulation that raised did so before it started a worker pool.
\* (specification Spec)
C9_ErrorsBeforePools ==
    (calls > 0 /\ err # "none") => loc.pools = 0

\* an order selection __init__ is to reject
UnsupportedOrders(orders) == ~OrdersValid(orders) \/ OrdersList(orders) = <<>>

\* C10: with an unsupported order selection __init__ never returns an object,
\* and it computes neither the time axis, nor the wavelength maps, nor the
\* PSF cubes.  (specification SpecInit)
C10_OrdersRejectedEarly ==
    UnsupportedOrders(args.orders)
        => /\ pc # "idle"
           /\ self.has \cap {"time", "wave", "psfs"} = {}

\* C11: a run_simulation call given a malformed planet spectrum raises, and
\* the malformed spectrum is never stored on the TSO.  (specification Spec)
C11_PlanetValidated ==
    (hist # <<>> /\ LastCall.planet # "None" /\ ~PlanetWellFormed(LastCall.planet))
        => err # "none" /\ PlanetWellFormed(self.planet)

\* C12: the ideal tensor of a run_simulation that completed is non-negative
\* everywhere and, for every pixel and integration, non-decreasing from one
\* group to the next.  (specification Spec)
C12_IdealRamps ==
    (calls > 0 /\ err = "none") =>
        LET T == self.tso_ideal
            st == Stride(T.shape, 2)
        IN  \A i \in DOMAIN T.v :
                /\ T.v[i] >= 0
                /\ CoordS(st, T.shape[2], i) < T.shape[2] - 1 => T.v[i] <= T.v[i + st]

(***************************************************************************)
(* Specification SpecLambda: one call of lambda_lightcurve (sim2D)         *)
(***************************************************************************)
\* the calls: wavelengths below, inside and above the star's grid, pixels on the
\* trace, in its wings and far from it, every kind of coefficient argument
LambdaInputs ==
    [wavelength : 1..NCols, response : {0, 1}, psf_loc : {-30, 0, 1, 2, 30},
     pfd2adu : {1},
     ld_coeffs : {[kind |-> "list", v |-> <<1, 2>>, of |-> "number"],
                  [kind |-> "ndarray", v |-> <<1, 2>>, of |-> "number"],
                  [kind |-> "float", v |-> <<1>>, of |-> "number"]},
     ld_profile : {"quadratic", "linear"},
     star : {[wmin |-> 2, wmax |-> NCols - 1, flux |-> x] : x \in {1, 2}},
     planet : {"", "P"}, time : {<<5, 10>>}, params : {[t0 |-> 5]},
     filt : {"CLEAR", "F277W"}, trace_radius : {25}, floor : {2}]

InitLambda ==
    /\ args \in LambdaInputs
    /\ pc = "call"
    /\ loc = IdleLoc
    /\ self = Blank
    /\ heap = InitialHeap
    /\ err = "none"
    /\ calls = 0
    /\ stages = <<>>
    /\ old = NoOld
    /\ hist = <<>>

\* lines 308-430: the call returns its light curve
LambdaCall ==
    /\ pc = "call"
    /\ pc' = "returned"
    /\ loc' = [background |-> IsBackground(args.wavelength, args.psf_loc, args.star,
                                           args.filt, args.trace_radius),
               scaled |-> scaled_flux(args.wavelength, args.response, args.psf_loc,
                                      args.pfd2adu, args.star, args.planet, args.time,
                                      args.params),
               transit |-> transit_call(args.wavelength, args.psf_loc, args.ld_coeffs,
                                        args.ld_profile, args.star, args.planet,
                                        args.filt, args.trace_radius),
               flux |-> lambda_lightcurve(args.wavelength, args.response, args.psf_loc,
                                          args.pfd2adu, args.ld_coeffs, args.ld_profile,
                                          args.star, args.planet, args.time, args.params,
                                          args.filt, args.trace_radius, args.floor)]
    /\ UNCHANGED <<self, heap, err, calls, args, stages, old, hist>>

NextLambda == LambdaCall

SpecLambda == InitLambda /\ [][NextLambda]_vars

\* C13: every sample lambda_lightcurve returns for a pixel on the trace is
\* the larger of the scaled sample and the floor, and is above zero.
\* (specification SpecLambda)
C13_FloorIsMax ==
    (pc = "returned" /\ ~loc.background) =>
        \A f \in DOMAIN loc.flux :
            /\ loc.flux[f] = (IF loc.scaled[f] < args.floor THEN args.floor
                              ELSE loc.scaled[f])
            /\ loc.flux[f] > 0

\* C14: for a wavelength below the minimum or above the maximum of the star's
\* wavelength grid the returned light curve is the floor at every time stamp.
\* (specification SpecLambda)
C14_OutsideStarIsFloor ==
    (pc = "returned"
     /\ (args.wavelength < args.star.wmin \/ args.wavelength > args.star.wmax))
        => \A f \in DOMAIN loc.flux : loc.flux[f] = args.floor

\* a call above the star's grid with a planet, on the trace centre, inside the passband
C14_Witness ==
    /\ pc = "returned"
    /\ args.wavelength > args.star.wmax
    /\ args.planet # "" /\ args.psf_loc = 2 /\ args.response = 1 /\ args.filt = "CLEAR"
    /\ ~loc.background
    /\ loc.flux = <<args.floor, args.floor>>

\* C15: when the transit model is evaluated, it is given the law passed as
\* ld_profile and the coefficients passed as ld_coeffs, both unchanged.
\* (specification SpecLambda)
C15_LawAndCoefficientsKept ==
    (pc = "returned" /\ loc.transit.called) =>
        /\ loc.transit.limb_dark = args.ld_profile
        /\ loc.transit.u = args.ld_coeffs

(***************************************************************************)
(* Specification SpecLdc: one call of ldc_lookup (sim2D)                   *)
(***************************************************************************)
\* line 503: the binned wavelengths of an order
LdcWavelengths(order) == 1..(MaxWaves + 1 - order)

\* names bound where ldc_lookup builds its partial (lines 432-518): its
\* parameters and locals, and the names imported by the module
LdcNames ==
    {"ld_profile", "grid_point", "delta_w", "nrows", "save", "lookup", "wave_maps",
     "gr700xd_ldc", "order", "min_wave", "max_wave", "wavelengths", "processes",
     "start", "pool", "partial", "multiprocessing", "np", "sys", "os", "core"}

\* lines 471-493: gr700xd_ldc for one wavelength; the computation fails for the
\* wavelengths in failing.  The key (0 stands for '_'), and what the except
\* clause prints.
gr700xd_ldc(wavelength, failing) ==
    IF wavelength \in failing
    THEN [key |-> 0, printed |-> <<wavelength>>]
    ELSE [key |-> wavelength, printed |-> <<>>]

\* lines 520-530: dict(pool.map(func, wavelengths)) without the key '_'
OrderDict(order, failing) ==
    {gr700xd_ldc(w, failing).key : w \in LdcWavelengths(order)} \ {0}

\* what a print shows the user while sys.stdout is the given stream
Shown(stdout, lines) == IF stdout = "terminal" THEN lines ELSE <<>>

\* the wavelengths the except clause printed during an order, in order
RECURSIVE PrintedBy(_, _, _)
PrintedBy(order, failing, w) ==
    IF w \notin LdcWavelengths(order) THEN <<>>
    ELSE gr700xd_ldc(w, failing).printed \o PrintedBy(order, failing, w + 1)

LdcInputs ==
    [grid_point : {"list", "dict", "string"},
     ld_profile : {"quadratic", "nonlinear"},
     failing : [1..2 -> SUBSET (1..MaxWaves)]]

InitLdc ==
    /\ args \in {a \in LdcInputs : \A order \in 1..2 : a.failing[order] \subseteq LdcWavelengths(order)}
    /\ pc = "call"
    /\ loc = IdleLoc
    /\ self = Blank
    /\ heap = InitialHeap
    /\ err = "none"
    /\ calls = 0
    /\ stages = <<>>
    /\ old = NoOld
    /\ hist = <<>>

\* lines 452-468: up to the test of the grid point
LdcBegin ==
    /\ pc = "call"
    /\ IF args.grid_point \in {"list", "dict"}
       THEN /\ pc' = "order"
            /\ loc' = [lookup |-> [o \in {} |-> {}], order |-> 1, stdout |-> "terminal",
                       shown |-> <<"coffee">>]
       ELSE /\ pc' = "returned"
            /\ loc' = [lookup |-> [o \in {} |-> {}], order |-> 1, stdout |-> "terminal",
                       shown |-> <<"coffee", "provide grid_point">>]
    /\ UNCHANGED <<self, heap, err, calls, args, stages, old, hist>>

\* lines 496-535: one pass of the loop over the orders; line 518 reads model_grid
LdcOrder ==
    /\ pc = "order"
    /\ IF loc.order > 2
       THEN pc' = "returned" /\ UNCHANGED <<loc, err>>
       ELSE IF "model_grid" \notin LdcNames
       THEN /\ pc' = "raised"
            /\ err' = "NameError"
            /\ loc' = [loc EXCEPT !.shown = @ \o <<"calculating">>, !.stdout = "devnull"]
       ELSE /\ pc' = "order"
            /\ err' = err
            /\ loc' = [loc EXCEPT
                         !.lookup = [o \in DOMAIN @ \cup {loc.order} |->
                                       IF o = loc.order
                                       THEN OrderDict(loc.order, args.failing[loc.order])
                                       ELSE @[o]],
                         !.shown = @ \o <<"calculating">>
                                     \o Shown("devnull", PrintedBy(loc.order,
                                                  args.failing[loc.order], 1))
                                     \o <<"finished">>,
                         !.stdout = "terminal",
                         !.order = @ + 1]
    /\ UNCHANGED <<self, heap, calls, args, stages, old, hist>>

NextLdc == LdcBegin \/ LdcOrder

SpecLdc == InitLdc /\ [][NextLdc]_vars

\* C16: a call of ldc_lookup with a usable grid point ends without an error,
\* with an entry for every wavelength whose computation succeeded, none for
\* a wavelength whose computation failed, and every skipped wavelength in
\* the output the user sees.  (specification SpecLdc)
C16_SkipAndReport ==
    (pc \notin {"call", "order"} /\ args.grid_point \in {"list", "dict"}) =>
        /\ err = "none"
        /\ \A order \in 1..2 :
              /\ order \in DOMAIN loc.lookup
              /\ loc.lookup[order] = LdcWavelengths(order) \ args.failing[order]
              /\ \A w \in args.failing[order] : \E i \in DOMAIN loc.shown : loc.shown[i] = w

\* C17: a run_simulation call with a planet and a transit model but neither
\* explicit coefficients nor a model grid raises, and starts no pool while the
\* coefficients are the all-zero array of __init__.  (specification Spec)
C17_NoSilentZeroCoefficients ==
    (/\ hist # <<>>
     /\ PlanetWellFormed(LastCall.planet)
     /\ LastCall.tmodel \in TModelIds
     /\ LastCall.ld_coeffs = "None"
     /\ LastCall.model_grid = "None"
     /\ LastCall.time_unit \in TimeUnits)
        => /\ err # "none"
           /\ self.ld_coeffs.src = "zeros" => loc.pools = 0

\* C18: the size every worker pool of a run_simulation call is created with
\* lies between 1 and the number of cores: n_jobs when 1 <= n_jobs <= cores,
\* the number of cores otherwise.  (specification SpecRun)
C18_PoolSize ==
    hist # <<>> =>
        /\ loc.n_jobs >= 1 /\ loc.n_jobs <= MaxCores
        /\ loc.n_jobs = (IF LastCall.n_jobs >= 1 /\ LastCall.n_jobs <= MaxCores
                         THEN LastCall.n_jobs ELSE MaxCores)

(***************************************************************************)
(* Specification SpecFan: the light-curve fan-out of one order.  sim2D:    *)
(* multiprocessing.Pool and lambda_lightcurve; awesimsoss: ThreadPool and  *)
(* mt.psf_lightcurve.  One unit per column; a worker takes a chunk of      *)
(* units and runs them one after the other.                                *)
(***************************************************************************)
Chunk(t) == ((t - 1) \div ChunkSize) + 1
Chunks == {Chunk(t) : t \in 1..NCols}

\* a unit that works on the one object every unit was given
SharedParams(impl, t) == 0

\* the transit-parameter object unit t works on; object 0 is the caller's.
\* sim2D: a process pool pickles func, with params in it, once per chunk, so
\* the unit has the copy of its chunk.  awesimsoss: the threads are all handed
\* self.tmodel itself.
ParamsOf(impl, t) == IF impl = "sim2D" THEN Chunk(t) ELSE 0

\* np.interp(wavelength, planet[0], planet[1]) for the unit's column
RpOf(t) == 10 + t

\* the caller's transit parameters before the fan-out
CallerParams == [limb_dark |-> "caller", u |-> 0, rp |-> 0]

\* mt.psf_lightcurve only reads what it is given (time, tmodel and the
\* per-column arguments) and returns the light curve of its column
psf_lightcurve_writes == FALSE

\* whether the unit writes to its parameter object: lines 398-406 of
\* lambda_lightcurve; psf_lightcurve is given rp and ld_coeffs as arguments
UnitWrites(a) == IF a.impl = "sim2D" THEN a.planet # "" ELSE psf_lightcurve_writes

\* what the unit evaluates the transit with, when every unit runs alone
UnitAlone(a, t) ==
    IF a.planet = "" THEN [limb_dark |-> "none", u |-> 0, rp |-> 0]
    ELSE IF a.impl = "sim2D"
    THEN [limb_dark |-> ld_arguments([kind |-> "ndarray", v |-> <<t, t>>, of |-> "number"],
                                     a.ld_profile).limb_dark,
          u |-> t, rp |-> RpOf(t)]
    ELSE [limb_dark |-> CallerParams.limb_dark, u |-> t, rp |-> RpOf(t)]

FanInputs ==
    [impl : {"sim2D", "awesimsoss"}, planet : {"", "P"},
     ld_profile : {"quadratic", "nonlinear"}, workers : 1..Processes]

InitFan ==
    /\ args \in FanInputs
    /\ pc = "fanout"
    /\ loc = [obj |-> [k \in {0} \cup Chunks |-> CallerParams],
              cur |-> [k \in Chunks |-> 0], phase |-> [k \in Chunks |-> "queued"],
              res |-> [t \in 1..NCols |-> CallerParams], writes |-> {}]
    /\ self = Blank
    /\ heap = InitialHeap
    /\ err = "none"
    /\ calls = 0
    /\ stages = <<>>
    /\ old = NoOld
    /\ hist = <<>>

\* a free worker takes a queued chunk (and, in a process pool, unpickles its copy)
ChunkStart(k) ==
    /\ pc = "fanout"
    /\ loc.phase[k] = "queued"
    /\ Cardinality({j \in Chunks : loc.phase[j] \in {"enter", "eval"}}) < args.workers
    /\ loc' = [loc EXCEPT !.phase[k] = "enter",
                          !.cur[k] = (k - 1) * ChunkSize + 1,
                          !.obj[k] = loc.obj[0]]
    /\ UNCHANGED <<self, heap, err, calls, pc, args, stages, old, hist>>

\* the unit sets the wavelength-dependent parameters (sim2D lines 400-406)
UnitSet(k) ==
    /\ pc = "fanout"
    /\ loc.phase[k] = "enter"
    /\ LET t == loc.cur[k]
           o == ParamsOf(args.impl, t)
       IN  loc' = IF UnitWrites(args)
                  THEN [loc EXCEPT !.phase[k] = "eval",
                                   !.obj[o] = UnitAlone(args, t),
                                   !.writes = @ \cup {<<t, o>>}]
                  ELSE [loc EXCEPT !.phase[k] = "eval"]
    /\ UNCHANGED <<self, heap, err, calls, pc, args, stages, old, hist>>

\* the unit evaluates the transit with its parameter object and returns; the
\* worker goes on to the next unit of the chunk (sim2D lines 408-430)
UnitEval(k) ==
    /\ pc = "fanout"
    /\ loc.phase[k] = "eval"
    /\ LET t == loc.cur[k]
           o == ParamsOf(args.impl, t)
           seen == IF UnitWrites(args) THEN loc.obj[o] ELSE UnitAlone(args, t)
           last == t = NCols \/ Chunk(t + 1) # k
       IN  loc' = [loc EXCEPT !.res[t] = seen,
                              !.cur[k] = IF last THEN 0 ELSE t + 1,
                              !.phase[k] = IF last THEN "done" ELSE "enter"]
    /\ UNCHANGED <<self, heap, err, calls, pc, args, stages, old, hist>>

\* pool.starmap returns; pool.close(); pool.join()
FanJoin ==
    /\ pc = "fanout"
    /\ \A k \in Chunks : loc.phase[k] = "done"
    /\ pc' = "joined"
    /\ UNCHANGED <<self, heap, err, calls, args, loc, stages, old, hist>>

NextFan ==
    \/ \E k \in Chunks : ChunkStart(k) \/ UnitSet(k) \/ UnitEval(k)
    \/ FanJoin

SpecFan == InitFan /\ [][NextFan]_vars

IntegrationOf(T, n, ngrps) ==
    LET len == ngrps * Stride(T.shape, 1)
    IN  [k \in 1..len |-> T.v[n * len + k]]

RECURSIVE polyval(_, _)
polyval(coeffs, x) ==
    IF coeffs = <<>> THEN 0
    ELSE Head(coeffs) * Prod([k \in 1..(Len(coeffs) - 1) |-> x]) + polyval(Tail(coeffs), x)

\* lines 55-62: Poly is the list of the points <<X, Y>> of the polynomial
dist(p0, Poly) ==
    LET distances == [k \in DOMAIN Poly |->
                        (p0[1] - Poly[k][1]) * (p0[1] - Poly[k][1])
                        + (p0[2] - Poly[k][2]) * (p0[2] - Poly[k][2])]
        d_min == CHOOSE d \in Range(distances) : \A e \in Range(distances) : d <= e
        argmin == CHOOSE k \in DOMAIN Poly :
                      distances[k] = d_min /\ \A j \in 1..(k - 1) : distances[j] # d_min
        diff == p0[2] - Poly[argmin][2]
        sign == IF diff > 0 THEN 1 ELSE IF diff < 0 THEN -1 ELSE 0
    IN  d_min * sign

\* lines 89-98: the coefficients used; '' (here <<>>) stands for the defaults
MapCoeffs(order, coeffs) ==
    IF coeffs # <<>> THEN coeffs
    ELSE IF order = 1 THEN <<0, 3 * Oversample>> ELSE <<0, 5 * Oversample>>

\* lines 118-120: X = np.arange(4, 2044, 0.1), Y = np.polyval(coeffs, X)
MapPoly(coeffs) ==
    [k \in 1..((NCols - 2 * RefWidth) * Oversample) |->
        <<RefWidth * Oversample + k - 1, polyval(coeffs, RefWidth * Oversample + k - 1)>>]

\* lines 111-116: the coordinate at position k (from 0) of the flat list; only
\* the columns 4..2043 are filled in, the others keep the zeros of np.zeros
MapFlat(k, rows) ==
    LET i == k \div rows
        j == k % rows
    IN  IF i >= RefWidth /\ i < NCols - RefWidth THEN <<i * Oversample, j * Oversample>>
        ELSE <<0, 0>>

MapInputs ==
    [order : 1..2, subarr : Subarrays,
     coeffs : {<<>>, <<0, 0>>, <<0, 1>>, <<0, 4>>, <<1, 0>>, <<-1, 8>>, <<1, -1, 3>>}]

InitMap ==
    /\ args \in MapInputs
    /\ pc = "generate"
    /\ loc = [d_map |-> <<>>, shape |-> <<NCols, SUBARRAY_Y(args.subarr)>>]
    /\ self = Blank
    /\ heap = InitialHeap
    /\ err = "none"
    /\ calls = 0
    /\ stages = <<>>
    /\ old = NoOld
    /\ hist = <<>>

\* lines 122-129: pool.map(func, flat) delivers the distances in the order of flat
MapPixel ==
    /\ pc = "generate"
    /\ Len(loc.d_map) < Prod(loc.shape)
    /\ loc' = [loc EXCEPT !.d_map = Append(@, dist(MapFlat(Len(loc.d_map), loc.shape[2]),
                                                    MapPoly(MapCoeffs(args.order, args.coeffs))))]
    /\ UNCHANGED <<self, heap, err, calls, pc, args, stages, old, hist>>

\* lines 131-133: np.asarray(d_map).reshape(dims).T
MapDone ==
    /\ pc = "generate"
    /\ Len(loc.d_map) = Prod(loc.shape)
    /\ loc' = [d_map |-> [k \in 1..Prod(loc.shape) |->
                            loc.d_map[((k - 1) % NCols) * loc.shape[2]
                                      + ((k - 1) \div NCols) + 1]],
               shape |-> <<loc.shape[2], NCols>>]
    /\ pc' = "returned"
    /\ UNCHANGED <<self, heap, err, calls, args, stages, old, hist>>

NextMap == MapPixel \/ MapDone

SpecMap == InitMap /\ [][NextMap]_vars

\* C21: in the map distance_map returns, no pixel of the columns outside the
\* valid trace range (the RefWidth first and last columns) is within the trace
\* radius, whatever the polynomial.  (specification SpecMap)
C21_EdgeColumnsExcluded ==
    pc = "returned" =>
        \A k \in 1..Len(loc.d_map) :
            LET c == (k - 1) % NCols
                r2 == (MapRadius * Oversample) * (MapRadius * Oversample)
            IN  (c < RefWidth \/ c >= NCols - RefWidth)
                => (loc.d_map[k] > r2 \/ loc.d_map[k] < -r2)

\* the squared distances from p0 to the points of Poly
SqDistances(p0, Poly) ==
    {(p0[1] - q[1]) * (p0[1] - q[1]) + (p0[2] - q[2]) * (p0[2] - q[2]) : q \in Range(Poly)}

\* C23: for every point handed to dist, the magnitude of the result is the
\* minimum distance from the point to the polynomial points, and the result is
\* positive when the point is above every nearest polynomial point and
\* negative when it is below every one of them.  (specification SpecMap)
C23_SignedMinimumDistance ==
    pc = "generate" =>
        \A k \in 1..Len(loc.d_map) :
            LET p0 == MapFlat(k - 1, loc.shape[2])
                Poly == MapPoly(MapCoeffs(args.order, args.coeffs))
                m == CHOOSE d \in SqDistances(p0, Poly) : \A e \in SqDistances(p0, Poly) : d <= e
                near == {q \in Range(Poly) : SqDistances(p0, <<q>>) = {m}}
                d == loc.d_map[k]
            IN  /\ (d = m \/ d = -m)
                /\ (\A q \in near : p0[2] > q[2]) => d > 0
                /\ (\A q \in near : p0[2] < q[2]) => d < 0

(***************************************************************************)
(* Specification SpecTimes: one call of get_frame_times                    *)
(***************************************************************************)
TimesInputs ==
    [subarray : Subarrays \cup {"SUBSTRIP512"}, ngrps : 1..(MaxGrps + 1),
     nints : 1..(MaxInts + 1), t0 : StartTimes, nresets : 0..(NResets + 1)]

InitTimes ==
    /\ args \in TimesInputs
    /\ pc = "call"
    /\ loc = [time |-> <<>>]
    /\ self = Blank
    /\ heap = InitialHeap
    /\ err = "none"
    /\ calls = 0
    /\ stages = <<>>
    /\ old = NoOld
    /\ hist = <<>>

TimesCall ==
    /\ pc = "call"
    /\ pc' = "returned"
    /\ loc' = [time |-> get_frame_times(args.subarray, args.ngrps, args.nints, args.t0,
                                        args.nresets)]
    /\ UNCHANGED <<self, heap, err, calls, args, stages, old, hist>>

NextTimes == TimesCall

SpecTimes == InitTimes /\ [][NextTimes]_vars

\* C22: the time axis get_frame_times returns has nints*ngrps entries, is
\* strictly increasing, and has group g of integration i at
\* t0 + (i*(nresets+ngrps) + nresets + g)*ft, ft being the frame time of the
\* subarray (of SUBSTRIP256 for an unknown one); so groups of one integration
\* are one frame time apart and integrations nresets+1 frame times.
\* (specification SpecTimes)
C22_FrameTimes ==
    pc = "returned" =>
        LET ft == FRAME_TIMES(IF args.subarray \in Subarrays THEN args.subarray
                              ELSE "SUBSTRIP256")
            t == loc.time
        IN  /\ Len(t) = args.nints * args.ngrps
            /\ \A k \in 1..(Len(t) - 1) : t[k] < t[k + 1]
            /\ \A i \in 0..(args.nints - 1), g \in 0..(args.ngrps - 1) :
                  t[i * args.ngrps + g + 1]
                      = args.t0 + (i * (args.nresets + args.ngrps) + args.nresets + g) * ft
            /\ \A i \in 0..(args.nints - 1), g \in 1..(args.ngrps - 1) :
                  t[i * args.ngrps + g + 1] - t[i * args.ngrps + g] = ft
            /\ \A i \in 1..(args.nints - 1) :
                  t[i * args.ngrps + 1] - t[i * args.ngrps] = (args.nresets + 1) * ft

\* a returned time axis of several integrations of several groups, with reset
\* frames and a start time other than zero
C22_Witness ==
    /\ pc = "returned"
    /\ args.nints >= 2 /\ args.ngrps >= 2 /\ args.nresets >= 1 /\ args.t0 # 0
    /\ Len(loc.time) = args.nints * args.ngrps
    /\ loc.time[args.ngrps + 1] - loc.time[args.ngrps] > FRAME_TIMES("SUBSTRIP96")

(***************************************************************************)
(* Specification SpecLdMap: one call of sim2D ld_coefficient_map.  The     *)
(* lookup table has the bins of orders 1 and 2 (what ldc_lookup makes);    *)
(* wavelengths are whole numbers and the coefficients of the bin at w of   *)
(* order o are the number 10*o + w.                                        *)
(***************************************************************************)
\* lines 1270-1295: the wavelength of pixel p (from 1) in the map of an order
wave_solutions(order, p) == ((p - 1) % NCols) + 2 * order

\* lines 577-588: the pixels within delta_w of the bin at w, delta_w being half
\* the mean spacing of the sorted bins (nan, so no pixel, for a single bin)
BinPixels(order, bins, w, npix) ==
    LET lo == CHOOSE x \in bins : \A y \in bins : x <= y
        hi == CHOOSE x \in bins : \A y \in bins : x >= y
        n == Cardinality(bins) - 1
    IN  {p \in 1..npix :
           /\ n > 0
           /\ 2 * n * (wave_solutions(order, p) - w) <= hi - lo
           /\ 2 * n * (w - wave_solutions(order, p)) <= hi - lo}

\* lines 545-605: the array returned ("None" when it is saved instead); the
\* loop on line 572 is over wave_map[:1], and a later bin overwrites an earlier
ld_coefficient_map(lookup, subarray, save) ==
    LET npix == SUBARRAY_Y(subarray) * NCols
        filled == [order \in 1..3 |->
                     [p \in 1..npix |->
                        LET hits == IF order > 1 THEN {}
                                    ELSE {w \in lookup[order] :
                                            p \in BinPixels(order, lookup[order], w, npix)}
                        IN  IF hits = {} THEN 0
                            ELSE 10 * order + (CHOOSE w \in hits : \A x \in hits : x <= w)]]
    IN  [ld_coeffs |-> filled, returned |-> save = ""]

LdMapInputs ==
    [lookup : [1..2 -> (SUBSET {2, 4, 6}) \ {{}}], subarray : Subarrays,
     save : {"", "path"}]

InitLdMap ==
    /\ args \in LdMapInputs
    /\ pc = "call"
    /\ loc = [ld_coeffs |-> <<>>, returned |-> FALSE]
    /\ self = Blank
    /\ heap = InitialHeap
    /\ err = "none"
    /\ calls = 0
    /\ stages = <<>>
    /\ old = NoOld
    /\ hist = <<>>

LdMapCall ==
    /\ pc = "call"
    /\ pc' = "returned"
    /\ loc' = ld_coefficient_map(args.lookup, args.subarray, args.save)
    /\ UNCHANGED <<self, heap, err, calls, args, stages, old, hist>>

NextLdMap == LdMapCall

SpecLdMap == InitLdMap /\ [][NextLdMap]_vars

\* C24: in the map ld_coefficient_map makes, for every order of the lookup
\* table, every pixel whose wavelength is within a bin of that order has the
\* coefficients of such a bin.  (specification SpecLdMap)
C24_AllOrdersFilled ==
    pc = "returned" =>
        \A order \in DOMAIN args.lookup :
            \A p \in 1..Len(loc.ld_coeffs[order]) :
                LET hits == {w \in args.lookup[order] :
                               p \in BinPixels(order, args.lookup[order], w,
                                               Len(loc.ld_coeffs[order]))}
                IN  hits # {} => loc.ld_coeffs[order][p] \in {10 * order + w : w \in hits}

\* C25: after every completed run_simulation call the combined ideal tensor is
\* the elementwise sum of the ideal tensors of the orders the call simulated
\* (an order not simulated counting as zero).  (sim2D, specification SpecSim2D)
C25_IdealIsSumOfOrders ==
    \A i \in DOMAIN hist :
        hist[i].err = "none" =>
            LET sim == Range(OldOrders(hist[i].orders, hist[i].filt))
            IN  hist[i].tso_ideal.v =
                    [k \in DOMAIN hist[i].tso_ideal.v |->
                        (IF 1 \in sim THEN hist[i].tso_order1.v[k] ELSE 0)
                        + (IF 2 \in sim THEN hist[i].tso_order2.v[k] ELSE 0)]

\* C26: the ideal tensor a completed run_simulation call without a planet
\* leaves is the one the same call gives on the object as constructed: the
\* star-only result, whatever was called before.  (awesimsoss, specification
\* Spec)
C26_NoCarryOver ==
    (hist # <<>> /\ err = "none" /\ LastCall.planet = "None") =>
        self.tso_ideal = run_simulation(Construct(args), InitialHeap, LastCall).self.tso_ideal

\* C27: a run_simulation call that raises because of its time_unit leaves the
\* noisy, ideal and per-order tensors, the planet, the transit model and the
\* limb-darkening coefficients as they were before the call.  (awesimsoss,
\* specification Spec)
C27_RejectedCallChangesNothing ==
    [][(/\ Len(hist') = Len(hist) + 1
        /\ hist'[Len(hist')].planet # "None"
        /\ hist'[Len(hist')].tmodel \in TModelIds
        /\ hist'[Len(hist')].time_unit \notin TimeUnits)
       => /\ err' = "ValueError"
          /\ self'.tso = self.tso
          /\ self'.tso_ideal = self.tso_ideal
          /\ self'.tso_order1_ideal = self.tso_order1_ideal
          /\ self'.tso_order2_ideal = self.tso_order2_ideal
          /\ self'.planet = self.planet
          /\ self'.tmodel = self.tmodel
          /\ self'.ld_coeffs = self.ld_coeffs
          /\ heap' = heap]_vars

\* C30: a run_simulation call given a planet and a transit model (and an
\* accepted time unit) sets the model's t0 to the middle time stamp of the
\* exposure when t0 was unset or outside [time[0], time[-1]], and leaves it
\* as it was when inside.  (awesimsoss, specification Spec)
C30_T0Centred ==
    [][(/\ Len(hist') = Len(hist) + 1
        /\ hist'[Len(hist')].planet # "None"
        /\ hist'[Len(hist')].tmodel \in TModelIds
        /\ hist'[Len(hist')].time_unit \in TimeUnits)
       => LET id == hist'[Len(hist')].tmodel
              t == self.time
          IN  /\ heap'[id].t0set
              /\ heap'[id].t0 =
                    IF ~heap[id].t0set \/ heap[id].t0 < t[1] \/ heap[id].t0 > t[Len(t)]
                    THEN t[(self.nframes \div 2) + 1]
                    ELSE heap[id].t0]_vars

(***************************************************************************)
(* Specification SpecCalls: a constructed TSO (awesimsoss) and a sequence  *)
(* of calls of its public methods run_simulation, add_refpix, add_noise    *)
(***************************************************************************)
InitCalls ==
    /\ args \in {c \in Configs : c.t0 = 0 /\ c.orders.l \in {<<1>>, <<1, 2>>}}
    /\ self = Construct(args)
    /\ heap = InitialHeap
    /\ err = "none"
    /\ calls = 0
    /\ pc = "idle"
    /\ loc = IdleLoc
    /\ stages = <<>>
    /\ old = NoOld
    /\ hist = <<>>

\* tso.run_simulation(...)
CallRun(a) ==
    /\ calls < MaxCalls
    /\ LET r == run_simulation(self, heap, a)
       IN  /\ self' = r.self
           /\ heap' = r.heap
           /\ err' = r.err
    /\ calls' = calls + 1
    /\ hist' = Append(hist, [op |-> "run_simulation", counts |-> 0, zodi_scale |-> 0])
    /\ UNCHANGED <<pc, args, loc, stages, old>>

\* tso.add_refpix(counts): three slice assignments on axes 1 and 2 of self.tso
CallAddRefpix(counts) ==
    /\ calls < MaxCalls
    /\ IF Ndim(self.tso) < 3
       THEN err' = "IndexError" /\ self' = self
       ELSE err' = "none" /\ self' = add_refpix(self, counts)
    /\ calls' = calls + 1
    /\ hist' = Append(hist, [op |-> "add_refpix", counts |-> counts, zodi_scale |-> 0])
    /\ UNCHANGED <<heap, pc, args, loc, stages, old>>

\* tso.add_noise(zodi_scale, offset)
CallAddNoise(zodi_scale, offset) ==
    /\ calls < MaxCalls
    /\ LET r == add_noise(self, zodi_scale, offset)
       IN  self' = r.self /\ err' = r.err
    /\ calls' = calls + 1
    /\ hist' = Append(hist, [op |-> "add_noise", counts |-> 0, zodi_scale |-> zodi_scale])
    /\ UNCHANGED <<heap, pc, args, loc, stages, old>>

NextCalls ==
    \/ \E a \in {b \in RunInputsFor({-1}) : b.planet = "None"} : CallRun(a)
    \/ \E counts \in {0, 7} : CallAddRefpix(counts)
    \/ \E zodi_scale \in {1, 2} : CallAddNoise(zodi_scale, 500)

SpecCalls == InitCalls /\ [][NextCalls]_vars

\* C28: a call of add_refpix(counts), after initialisation or after a run, sets
\* the pixels of the left and right reference columns and of the top reference
\* rows of every frame of the noisy tensor to counts and leaves all its other
\* pixels and the ideal tensors as they were.  (specification SpecCalls)
C28_RefpixExactlyBorder ==
    [][(Len(hist') = Len(hist) + 1 /\ hist'[Len(hist')].op = "add_refpix")
       => /\ err' = "none"
          /\ self'.tso.shape = self.tso.shape
          /\ \A i \in DOMAIN self.tso.v :
                self'.tso.v[i] = IF i \in BorderPixels(self.tso)
                                 THEN hist'[Len(hist')].counts ELSE self.tso.v[i]
          /\ self'.tso_ideal = self.tso_ideal
          /\ self'.tso_order1_ideal = self.tso_order1_ideal
          /\ self'.tso_order2_ideal = self.tso_order2_ideal]_vars

\* C29: a call of add_noise(zodi_scale, offset) made right after a completed
\* run_simulation succeeds, leaves the noisy tensor in shape (nints, ngrps,
\* rows, cols) with the frame of every integration and group built from the
\* ideal frame of the same integration and group, and leaves the ideal and
\* per-order tensors as they were.  (specification SpecCalls)
C29_NoiseRecomputed ==
    [][(/\ hist # <<>> /\ LastCall.op = "run_simulation" /\ err = "none"
        /\ Len(hist') = Len(hist) + 1 /\ hist'[Len(hist')].op = "add_noise")
       => /\ err' = "none"
          /\ self'.tso.shape = self.dims
          /\ \A i \in DOMAIN self'.tso.v :
                self'.tso.v[i] =
                    add_pedestal(
                      non_linearity(
                        add_signal(self.tso_ideal.v[i],
                                   DarkRamp(CoordS(Stride(self.dims, 2), self.dims[2], i), 500),
                                   hist'[Len(hist')].zodi_scale),
                        500),
                      500)
          /\ self'.tso_ideal = self.tso_ideal
          /\ self'.tso_order1_ideal = self.tso_order1_ideal
          /\ self'.tso_order2_ideal = self.tso_order2_ideal]_vars

====
